---- MODULE Spec2Model ----
(***************************************************************************)
(* Heart dating backend (src/index.js): the POST /swipe match resolver,    *)
(* GET /matches, the match-scoped chat endpoints GET/POST /messages and    *)
(* the moderation endpoint DELETE /admin/user/:id, as concurrent request   *)
(* handlers over one relational store.  Every db.getQuery call is one atomic step of the *)
(* store; the JavaScript that runs between two awaits is folded into the   *)
(* step of the query that precedes it.  The tables are the ones the SQL of *)
(* index.js names, with auto-increment ids and no constraint beyond what   *)
(* the handlers check themselves; a delete leaves the id counters alone.   *)
(* out is the HTTP response sent by the step that led to the state, with   *)
(* the request it answers (Idle when the step sent none).                  *)
(***************************************************************************)
EXTENDS Integers, Sequences, FiniteSets

VARIABLES users, swipes, matches, messages, nextMatchId, nextMessageId, clock,
          req, out, budget

vars == <<users, swipes, matches, messages, nextMatchId, nextMessageId, clock,
          req, out, budget>>

\* The tables, their auto-increment counters and the store's clock (the
\* column default of matched_at and sent_at).
store == <<users, swipes, matches, messages, nextMatchId, nextMessageId, clock>>

(* ---------------------------- bounds ---------------------------------- *)
\* User ids 1..NumUsers appear in chat and moderation requests; the users
\* 1..NumSwipers swipe on each other; ids up to NumStr are also sent as strings.
NumUsers == 3
NumSwipers == 2
NumStr == 1
\* Chat requests name the matches 1..MaxMatchId.
MaxMatchId == 2
\* Requests handled at the same time.
MaxReq == 2
\* Requests admitted past validation in one run, per handler (budget counts them).
MaxSwipes == 3
MaxPosts == 1
MaxDeletes == 1
\* Messages admitted past validation in a run of the chat handlers alone.
MaxChatPosts == 2
\* orderPair is applied to the ids 1..MaxId, as numbers and as strings.
MaxId == 6
\* The store's clock reads 0..MaxClock.
MaxClock == 1

Users == 1..NumUsers
Swipers == 1..NumSwipers
Reqs == 1..MaxReq
MatchIds == 1..MaxMatchId

(* ------------------------- request values ----------------------------- *)
(* A JSON body field: absent, a number, or a string of decimal digits.    *)
Undefined == [t |-> "undefined", v |-> 0]
Num(n) == [t |-> "number", v |-> n]
Str(n) == [t |-> "string", v |-> n]

Directions == {"left", "right"}

\* !x on a request field: undefined, 0 and "" are falsy (a digit string is not).
Falsy(x) == x.t = "undefined" \/ (x.t = "number" /\ x.v = 0)

\* POST /swipe bodies {swiperId, targetId, direction}: the ids as JSON numbers,
\* the ids up to NumStr also as strings; one body for each field missing or bad.
SwipeIds == {Num(n) : n \in Swipers} \cup {Str(n) : n \in 1..NumStr}
SwipeBodies ==
    (SwipeIds \X SwipeIds \X Directions)
    \cup {<<Undefined, Num(1), "right">>, <<Num(1), Undefined, "right">>,
          <<Num(1), Num(2), "up">>}

\* GET /matches query {userId}: a string, or absent.
MatchQueries == {Str(n) : n \in Users} \cup {Undefined}

\* GET /messages query {matchId, userId}: strings, or absent.
GetQueries ==
    ({Str(n) : n \in MatchIds} \X {Str(n) : n \in Users})
    \cup {<<Undefined, Str(1)>>, <<Str(1), Undefined>>}

\* POST /messages bodies {matchId, senderId, content}.
PostBodies ==
    ({Num(n) : n \in MatchIds} \X {Num(n) : n \in Users} \X {"hi"})
    \cup {<<Undefined, Num(1), "hi">>, <<Num(1), Undefined, "hi">>,
          <<Num(1), Num(1), "">>}

\* DELETE /admin/user/:id route parameter.
DeleteIds == {Str(n) : n \in Users}

\* Number(x): a number is itself, a digit string is parsed.
Number(x) == x.v

\* The value an INT column takes, or is compared as, for a bound parameter.
SqlInt(x) == x.v

NoResp == [status |-> 0, message |-> "", matched |-> "absent", matchId |-> 0,
           messageId |-> 0, rows |-> <<>>]

\* A request slot: the handler, its next query, the request fields (a, b, c in
\* the order of the destructuring), the locals u1, u2 and the response; row is
\* the place in the ledger of the swipe the request recorded (0: none).
Idle == [op |-> "none", pc |-> "idle", a |-> Undefined, b |-> Undefined, c |-> "",
         u1 |-> 0, u2 |-> 0, row |-> 0, resp |-> NoResp]

\* res.status(status).json({message, ...}): the request as answered.
Reply(q, status, message) ==
    [q EXCEPT !.pc = "done", !.resp = [NoResp EXCEPT !.status = status, !.message = message]]

\* The step of request r goes on to the next query, or answers with q.
Goto(r, q) == req' = [req EXCEPT ![r] = q] /\ out' = Idle
Answer(r, q) == req' = [req EXCEPT ![r] = Idle] /\ out' = q

(* --------------------------- helpers ---------------------------------- *)
orderPair_Swapped(a, b) == <<Number(b), Number(a)>>

orderPair_AsGiven(a, b) == <<Number(a), Number(b)>>

orderPair_Flipped(a, b) ==
    IF Number(a) > Number(b) THEN <<Number(a), Number(b)>> ELSE <<Number(b), Number(a)>>

\* orderPair(a, b): lowest id first, both converted with Number().
orderPair(a, b) ==
    IF Number(a) < Number(b) THEN <<Number(a), Number(b)>> ELSE <<Number(b), Number(a)>>

userInMatch_AnyMatch(matchId, userId) ==
    \E m \in matches : m.user1_id = SqlInt(userId) \/ m.user2_id = SqlInt(userId)

\* SELECT id FROM matches WHERE id = ? AND (user1_id = ? OR user2_id = ?) LIMIT 1
userInMatch(matchId, userId) ==
    \E m \in matches :
        /\ m.id = SqlInt(matchId)
        /\ (m.user1_id = SqlInt(userId) \/ m.user2_id = SqlInt(userId))

ReverseRight_MostRecent(swiperId, targetId) ==
    \E i \in 1..Len(swipes) :
        /\ swipes[i].swiper_id = SqlInt(targetId)
        /\ swipes[i].target_id = SqlInt(swiperId)
        /\ swipes[i].direction = "right"
        /\ \A k \in (i + 1)..Len(swipes) :
               swipes[k].swiper_id # SqlInt(targetId) \/ swipes[k].target_id # SqlInt(swiperId)

\* SELECT id FROM swipes WHERE swiper_id = ? AND target_id = ? AND direction = 'right'
ReverseRight(swiperId, targetId) ==
    \E i \in 1..Len(swipes) :
        /\ swipes[i].swiper_id = SqlInt(targetId)
        /\ swipes[i].target_id = SqlInt(swiperId)
        /\ swipes[i].direction = "right"

\* SELECT id FROM matches WHERE (user1_id = ? AND user2_id = ?) LIMIT 1
MatchExists(u1, u2) == \E m \in matches : m.user1_id = u1 /\ m.user2_id = u2

\* SELECT id, sender_id, content, sent_at FROM messages WHERE match_id = ?
MessagesOf(matchId) ==
    LET mine(m) == m.match_id = SqlInt(matchId) IN SelectSeq(messages, mine)

\* SELECT m.id AS match_id, m.matched_at, CASE ... END AS other_id
\* FROM matches m JOIN users u ON u.id = (other) WHERE m.user1_id = ? OR
\* m.user2_id = ?  (the profile columns of u are outside the model).
MatchesWith(userId) ==
    LET me == SqlInt(userId)
        other(m) == IF m.user1_id = me THEN m.user2_id ELSE m.user1_id IN
    {[match_id |-> m.id, matched_at |-> m.matched_at, other_id |-> other(m)] :
        m \in {x \in matches : (x.user1_id = me \/ x.user2_id = me) /\ other(x) \in users}}

Rows(s) == {s[i] : i \in 1..Len(s)}

\* ORDER BY key ASC over a set of rows (key gives each row its sort key):
\* every arrangement of the rows in which the key never decreases; rows with
\* equal keys come in any order.
OrderBy(rows, key) ==
    LET n == Cardinality(rows) IN
    {s \in [1..n -> rows] :
        /\ \A i, j \in 1..n : i # j => s[i] # s[j]
        /\ \A i \in 1..(n - 1) : key[s[i]] <= key[s[i + 1]]}

\* ORDER BY sent_at ASC
SentAt(rows) == [m \in rows |-> m.sent_at]
\* ORDER BY matched_at DESC
MatchedAtDesc(rows) == [m \in rows |-> 0 - m.matched_at]

Free(r) == req[r].pc = "idle"

(* ------------------------------ Init ---------------------------------- *)
Init ==
    /\ users = Users
    /\ swipes = <<>>
    /\ matches = {}
    /\ messages = <<>>
    /\ nextMatchId = 1
    /\ nextMessageId = 1
    /\ clock = 0
    /\ req = [r \in Reqs |-> Idle]
    /\ out = Idle
    /\ budget = [swipes |-> 0, posts |-> 0, deletes |-> 0, lost |-> {}]

Spend(what) == budget' = [budget EXCEPT ![what] = @ + 1]

(* ---------------------------- POST /swipe ----------------------------- *)
SameUser_Strict(swiperId, targetId) == swiperId = targetId

\* Line 358: Number(swiperId) === Number(targetId)
SameUser(swiperId, targetId) == Number(swiperId) = Number(targetId)

WantsMatch_Always(direction) == TRUE

\* Line 369: direction === 'right'
WantsMatch(direction) == direction = "right"

\* Lines 354-360: destructure the body and validate; a valid request goes on
\* to its first query.
SwipeStart(r, bodies) ==
    \E body \in bodies :
        LET swiperId == body[1]
            targetId == body[2]
            direction == body[3]
            q == [Idle EXCEPT !.op = "swipe", !.a = swiperId, !.b = targetId,
                              !.c = direction] IN
        /\ Free(r)
        /\ IF Falsy(swiperId) \/ Falsy(targetId) \/ direction \notin {"left", "right"}
           THEN /\ Answer(r, Reply(q, 400,
                      "swiperId, targetId en geldige direction zijn vereist."))
                /\ UNCHANGED budget
           ELSE IF SameUser(swiperId, targetId)
           THEN /\ Answer(r, Reply(q, 400, "Je kan niet op jezelf swipen."))
                /\ UNCHANGED budget
           ELSE /\ budget.swipes < MaxSwipes
                /\ Goto(r, [q EXCEPT !.pc = "insertSwipe"])
                /\ Spend("swipes")
        /\ UNCHANGED store

SwipeInsert_Dedup(r) ==
    LET me == req[r]
        others(s) == s.swiper_id # SqlInt(me.a) \/ s.target_id # SqlInt(me.b)
        kept == SelectSeq(swipes, others) IN
    /\ me.op = "swipe" /\ me.pc = "insertSwipe"
    /\ swipes' = Append(kept, [swiper_id |-> SqlInt(me.a),
                               target_id |-> SqlInt(me.b),
                               direction |-> me.c])
    /\ IF WantsMatch(me.c)
       THEN Goto(r, [me EXCEPT !.pc = "readReverse", !.row = Len(kept) + 1])
       ELSE Answer(r, [Reply(me, 200, "Swipe opgeslagen") EXCEPT !.resp.matched = "false"])
    /\ UNCHANGED <<matches, messages, nextMatchId, nextMessageId, users, clock, budget>>

\* Lines 363-369 and 398: INSERT INTO swipes; a left swipe answers at once.
SwipeInsert(r) ==
    LET me == req[r] IN
    /\ me.op = "swipe" /\ me.pc = "insertSwipe"
    /\ swipes' = Append(swipes, [swiper_id |-> SqlInt(me.a),
                                 target_id |-> SqlInt(me.b),
                                 direction |-> me.c])
    /\ IF WantsMatch(me.c)
       THEN Goto(r, [me EXCEPT !.pc = "readReverse", !.row = Len(swipes) + 1])
       ELSE Answer(r, [Reply(me, 200, "Swipe opgeslagen") EXCEPT !.resp.matched = "false"])
    /\ UNCHANGED <<matches, messages, nextMatchId, nextMessageId, users, clock, budget>>

\* Lines 370-377 and 398: read the reverse right swipe; order the pair.
SwipeReadReverse(r) ==
    LET me == req[r] IN
    /\ me.op = "swipe" /\ me.pc = "readReverse"
    /\ IF ReverseRight(me.a, me.b)
       THEN Goto(r, [me EXCEPT !.pc = "readMatch",
                               !.u1 = orderPair(me.a, me.b)[1],
                               !.u2 = orderPair(me.a, me.b)[2]])
       ELSE Answer(r, [Reply(me, 200, "Swipe opgeslagen") EXCEPT !.resp.matched = "false"])
    /\ UNCHANGED <<store, budget>>

\* Lines 378-383 and 394: does the match exist already?
SwipeReadMatch(r) ==
    LET me == req[r] IN
    /\ me.op = "swipe" /\ me.pc = "readMatch"
    /\ IF ~MatchExists(me.u1, me.u2)
       THEN Goto(r, [me EXCEPT !.pc = "insertMatch"])
       ELSE Answer(r, [Reply(me, 200, "Swipe opgeslagen - match bestond al.")
                          EXCEPT !.resp.matched = "true"])
    /\ UNCHANGED <<store, budget>>

\* Lines 384-392: INSERT INTO matches and answer with insertId.
SwipeInsertMatch(r) ==
    LET me == req[r] IN
    /\ me.op = "swipe" /\ me.pc = "insertMatch"
    /\ matches' = matches \cup
          {[id |-> nextMatchId, user1_id |-> me.u1, user2_id |-> me.u2,
            matched_at |-> clock]}
    /\ nextMatchId' = nextMatchId + 1
    /\ Answer(r, [Reply(me, 200, "Swipe opgeslagen - MATCH!")
                     EXCEPT !.resp.matched = "true", !.resp.matchId = nextMatchId])
    /\ UNCHANGED <<swipes, messages, nextMessageId, users, clock, budget>>

(* ---------------------------- GET /matches ---------------------------- *)
\* Lines 408-409.
GetMatchesStart(r, queries) ==
    \E userId \in queries :
        LET q == [Idle EXCEPT !.op = "getMatches", !.a = userId] IN
        /\ Free(r)
        /\ IF Falsy(userId)
           THEN Answer(r, Reply(q, 400, "userId is vereist."))
           ELSE Goto(r, [q EXCEPT !.pc = "select"])
        /\ UNCHANGED <<store, budget>>

\* Lines 411-424: the matches of the user, most recent first.
GetMatchesSelect(r) ==
    LET me == req[r] IN
    /\ me.op = "getMatches" /\ me.pc = "select"
    /\ \E rows \in OrderBy(MatchesWith(me.a), MatchedAtDesc(MatchesWith(me.a))) :
           Answer(r, [Reply(me, 200, "") EXCEPT !.resp.rows = rows])
    /\ UNCHANGED <<store, budget>>

(* ---------------------------- GET /messages --------------------------- *)
\* Lines 436-441: query-string fields are strings or absent.
GetMessagesStart(r, queries) ==
    \E query \in queries :
        LET matchId == query[1]
            userId == query[2]
            q == [Idle EXCEPT !.op = "getMessages", !.a = matchId, !.b = userId] IN
        /\ Free(r)
        /\ IF Falsy(matchId) \/ Falsy(userId)
           THEN Answer(r, Reply(q, 400, "matchId en userId zijn vereist."))
           ELSE Goto(r, [q EXCEPT !.pc = "authorize"])
        /\ UNCHANGED <<store, budget>>

\* Lines 441-442: userInMatch, 403 when it denies.
GetMessagesAuthorize(r) ==
    LET me == req[r] IN
    /\ me.op = "getMessages" /\ me.pc = "authorize"
    /\ IF ~userInMatch(me.a, me.b)
       THEN Answer(r, Reply(me, 403, "Geen toegang tot deze match."))
       ELSE Goto(r, [me EXCEPT !.pc = "select"])
    /\ UNCHANGED <<store, budget>>

\* Lines 444-448: the rows of the match, ORDER BY sent_at ASC.
GetMessagesSelect(r) ==
    LET me == req[r] IN
    /\ me.op = "getMessages" /\ me.pc = "select"
    /\ \E rows \in OrderBy(Rows(MessagesOf(me.a)), SentAt(Rows(MessagesOf(me.a)))) :
           Answer(r, [Reply(me, 200, "") EXCEPT !.resp.rows = rows])
    /\ UNCHANGED <<store, budget>>

(* ---------------------------- POST /messages -------------------------- *)
PostMessagesStart_NoContentCheck(r, bodies, limit) ==
    \E body \in bodies :
        LET matchId == body[1]
            senderId == body[2]
            content == body[3]
            q == [Idle EXCEPT !.op = "postMessages", !.a = matchId, !.b = senderId,
                              !.c = content] IN
        /\ Free(r)
        /\ IF Falsy(matchId) \/ Falsy(senderId)
           THEN /\ Answer(r, Reply(q, 400, "matchId, senderId en content zijn vereist."))
                /\ UNCHANGED budget
           ELSE /\ budget.posts < limit
                /\ Goto(r, [q EXCEPT !.pc = "authorize"])
                /\ Spend("posts")
        /\ UNCHANGED store

\* Lines 458-463.
PostMessagesStart(r, bodies, limit) ==
    \E body \in bodies :
        LET matchId == body[1]
            senderId == body[2]
            content == body[3]
            q == [Idle EXCEPT !.op = "postMessages", !.a = matchId, !.b = senderId,
                              !.c = content] IN
        /\ Free(r)
        /\ IF Falsy(matchId) \/ Falsy(senderId) \/ content = ""
           THEN /\ Answer(r, Reply(q, 400, "matchId, senderId en content zijn vereist."))
                /\ UNCHANGED budget
           ELSE /\ budget.posts < limit
                /\ Goto(r, [q EXCEPT !.pc = "authorize"])
                /\ Spend("posts")
        /\ UNCHANGED store

PostMessagesAuthorize_NoReturn(r) ==
    LET me == req[r] IN
    /\ me.op = "postMessages" /\ me.pc = "authorize"
    /\ Goto(r, [me EXCEPT !.pc = "insert"])
    /\ UNCHANGED <<store, budget>>

\* Lines 463-464.
PostMessagesAuthorize(r) ==
    LET me == req[r] IN
    /\ me.op = "postMessages" /\ me.pc = "authorize"
    /\ IF ~userInMatch(me.a, me.b)
       THEN Answer(r, Reply(me, 403, "Geen toegang tot deze match."))
       ELSE Goto(r, [me EXCEPT !.pc = "insert"])
    /\ UNCHANGED <<store, budget>>

\* Lines 466-471: INSERT INTO messages and answer 201 with insertId.
PostMessagesInsert(r) ==
    LET me == req[r] IN
    /\ me.op = "postMessages" /\ me.pc = "insert"
    /\ messages' = Append(messages, [id |-> nextMessageId,
                                     match_id |-> SqlInt(me.a),
                                     sender_id |-> SqlInt(me.b),
                                     content |-> me.c,
                                     sent_at |-> clock])
    /\ nextMessageId' = nextMessageId + 1
    /\ Answer(r, [Reply(me, 201, "Bericht verstuurd.") EXCEPT !.resp.messageId = nextMessageId])
    /\ UNCHANGED <<swipes, matches, nextMatchId, users, clock, budget>>

(* ------------------------ DELETE /admin/user/:id ---------------------- *)
\* Lines 536-540: the route parameter is a non-empty string.
DeleteUserStart(r) ==
    \E userId \in DeleteIds :
        /\ Free(r)
        /\ budget.deletes < MaxDeletes
        /\ Goto(r, [Idle EXCEPT !.op = "deleteUser", !.a = userId, !.pc = "deletePhotos"])
        /\ Spend("deletes")
        /\ UNCHANGED store

\* Line 540: DELETE FROM user_photos (a table outside the model).
DeleteUserPhotos(r) ==
    LET me == req[r] IN
    /\ me.op = "deleteUser" /\ me.pc = "deletePhotos"
    /\ Goto(r, [me EXCEPT !.pc = "deleteSwipes"])
    /\ UNCHANGED <<store, budget>>

\* Line 543: DELETE FROM swipes WHERE swiper_id = ? OR target_id = ?
DeleteUserSwipes(r) ==
    LET me == req[r]
        stays(s) == s.swiper_id # SqlInt(me.a) /\ s.target_id # SqlInt(me.a) IN
    /\ me.op = "deleteUser" /\ me.pc = "deleteSwipes"
    /\ swipes' = SelectSeq(swipes, stays)
    /\ Goto(r, [me EXCEPT !.pc = "deleteMessages"])
    /\ UNCHANGED <<matches, messages, nextMatchId, nextMessageId, users, clock, budget>>

\* Line 544: DELETE FROM messages WHERE sender_id = ?
DeleteUserMessages(r) ==
    LET me == req[r]
        stays(m) == m.sender_id # SqlInt(me.a) IN
    /\ me.op = "deleteUser" /\ me.pc = "deleteMessages"
    /\ messages' = SelectSeq(messages, stays)
    /\ Goto(r, [me EXCEPT !.pc = "deleteMatches"])
    /\ UNCHANGED <<swipes, matches, nextMatchId, nextMessageId, users, clock, budget>>

\* Line 545: DELETE FROM matches WHERE user1_id = ? OR user2_id = ?
DeleteUserMatches(r) ==
    LET me == req[r] IN
    /\ me.op = "deleteUser" /\ me.pc = "deleteMatches"
    /\ matches' = {m \in matches :
                      m.user1_id # SqlInt(me.a) /\ m.user2_id # SqlInt(me.a)}
    /\ Goto(r, [me EXCEPT !.pc = "deleteUser"])
    /\ UNCHANGED <<swipes, messages, nextMatchId, nextMessageId, users, clock, budget>>

\* Lines 548-550: DELETE FROM users WHERE id = ? and answer.
DeleteUserRow(r) ==
    LET me == req[r] IN
    /\ me.op = "deleteUser" /\ me.pc = "deleteUser"
    /\ users' = users \ {SqlInt(me.a)}
    /\ Answer(r, Reply(me, 200, "Gebruiker verwijderd."))
    /\ UNCHANGED <<swipes, matches, messages, nextMatchId, nextMessageId, clock, budget>>

(* ------------------------------ the clock ----------------------------- *)
\* Time passes between two statements: the store's clock never goes back, and
\* two statements may read the same value.
Tick ==
    /\ clock < MaxClock
    /\ clock' = clock + 1
    /\ out' = Idle
    /\ UNCHANGED <<users, swipes, matches, messages, nextMatchId, nextMessageId, req, budget>>

(* --------------------------- storage failure -------------------------- *)
\* The message of each handler's catch block.
ErrorMessage(op) ==
    CASE op = "swipe" -> "Serverfout bij swipen."
      [] op = "getMatches" -> "Serverfout bij matches ophalen."
      [] op = "getMessages" -> "Serverfout bij berichten ophalen."
      [] op = "postMessages" -> "Serverfout bij bericht verzenden."
      [] OTHER -> "Serverfout bij verwijderen gebruiker."

QueryFails_Rollback(r) ==
    LET me == req[r] IN
    /\ ~Free(r)
    /\ Answer(r, Reply(me, 500, ErrorMessage(me.op)))
    /\ budget' = [budget EXCEPT !.lost = IF me.row = 0 THEN @ ELSE @ \cup {me.row}]
    /\ swipes' = IF me.row = 0 THEN swipes
                 ELSE [i \in 1..(Len(swipes) - 1) |->
                          IF i < me.row THEN swipes[i] ELSE swipes[i + 1]]
    /\ UNCHANGED <<users, matches, messages, nextMatchId, nextMessageId, clock>>

\* The pending db.getQuery of request r rejects without effect: the handler's
\* catch block answers 500.  budget.lost notes the ledger rows whose request
\* failed after its INSERT INTO swipes.
QueryFails(r) ==
    LET me == req[r] IN
    /\ ~Free(r)
    /\ Answer(r, Reply(me, 500, ErrorMessage(me.op)))
    /\ budget' = [budget EXCEPT !.lost = IF me.row = 0 THEN @ ELSE @ \cup {me.row}]
    /\ UNCHANGED store

(* ------------------------------ Next ---------------------------------- *)
\* The requests that pass the handlers' field validation.
ValidSwipes ==
    {b \in SwipeBodies : ~Falsy(b[1]) /\ ~Falsy(b[2]) /\ b[3] \in Directions
                         /\ Number(b[1]) # Number(b[2])}
ValidMatchQueries == {q \in MatchQueries : ~Falsy(q)}
ValidQueries == {q \in GetQueries : ~Falsy(q[1]) /\ ~Falsy(q[2])}
ValidPosts == {b \in PostBodies : ~Falsy(b[1]) /\ ~Falsy(b[2]) /\ b[3] # ""}

Swipe(r) ==
    \/ SwipeInsert(r)
    \/ SwipeReadReverse(r)
    \/ SwipeReadMatch(r)
    \/ SwipeInsertMatch(r)

GetMatches(r) ==
    \/ GetMatchesStart(r, ValidMatchQueries)
    \/ GetMatchesSelect(r)

GetMessages(r) ==
    \/ GetMessagesStart(r, ValidQueries)
    \/ GetMessagesAuthorize(r)
    \/ GetMessagesSelect(r)

PostMessages(r) ==
    \/ PostMessagesStart(r, ValidPosts, MaxPosts)
    \/ PostMessagesAuthorize(r)
    \/ PostMessagesInsert(r)

DeleteUser(r) ==
    \/ DeleteUserStart(r)
    \/ DeleteUserPhotos(r)
    \/ DeleteUserSwipes(r)
    \/ DeleteUserMessages(r)
    \/ DeleteUserMatches(r)
    \/ DeleteUserRow(r)

\* The swipe, chat and moderation handlers, concurrently, on requests that
\* pass validation and with a store that answers every query; the clock
\* stands still.
Next ==
    \E r \in Reqs :
        \/ SwipeStart(r, ValidSwipes)
        \/ Swipe(r)
        \/ GetMessages(r)
        \/ PostMessages(r)
        \/ DeleteUser(r)

Spec == Init /\ [][Next]_vars

\* POST /swipe alone, concurrently, on every body and with a store that may
\* reject any query.
NextSwipe ==
    \E r \in Reqs :
        \/ SwipeStart(r, SwipeBodies)
        \/ Swipe(r)
        \/ QueryFails(r)

SpecSwipe == Init /\ [][NextSwipe]_vars

\* The core without moderation: swipes, match lists and chat, concurrently,
\* on requests that pass validation.
NextCore ==
    \E r \in Reqs :
        \/ SwipeStart(r, ValidSwipes)
        \/ Swipe(r)
        \/ GetMatches(r)
        \/ GetMessages(r)
        \/ PostMessages(r)

SpecCore == Init /\ [][NextCore]_vars

\* The store once users 1 and 2 have swiped right on each other and the
\* second of the two requests has inserted their match.
InitChat ==
    /\ users = Users
    /\ swipes = <<[swiper_id |-> 1, target_id |-> 2, direction |-> "right"],
                  [swiper_id |-> 2, target_id |-> 1, direction |-> "right"]>>
    /\ matches = {[id |-> 1, user1_id |-> 1, user2_id |-> 2, matched_at |-> 0]}
    /\ messages = <<>>
    /\ nextMatchId = 2
    /\ nextMessageId = 1
    /\ clock = 0
    /\ req = [r \in Reqs |-> Idle]
    /\ out = Idle
    /\ budget = [swipes |-> 2, posts |-> 0, deletes |-> 0, lost |-> {}]

\* The chat handlers alone, concurrently, on every query and body, while the
\* clock advances.
NextChat ==
    \/ \E r \in Reqs :
          \/ GetMessagesStart(r, GetQueries)
          \/ GetMessagesAuthorize(r)
          \/ GetMessagesSelect(r)
          \/ PostMessagesStart(r, PostBodies, MaxChatPosts)
          \/ PostMessagesAuthorize(r)
          \/ PostMessagesInsert(r)
    \/ Tick

SpecChat == InitChat /\ [][NextChat]_vars

\* orderPair by itself: a call on each pair of ids (a, b), as numbers or as
\* strings, next to the call on (b, a); a call returns its result in u1, u2.
PairIds == {Num(n) : n \in 1..MaxId} \cup {Str(n) : n \in 1..MaxId}

InitPair ==
    /\ users = Users
    /\ swipes = <<>>
    /\ matches = {}
    /\ messages = <<>>
    /\ nextMatchId = 1
    /\ nextMessageId = 1
    /\ clock = 0
    /\ \E a, b \in PairIds :
           req = [r \in Reqs |->
                     IF r = 1 THEN [Idle EXCEPT !.op = "orderPair", !.pc = "call",
                                                !.a = a, !.b = b]
                     ELSE IF r = 2 THEN [Idle EXCEPT !.op = "orderPair", !.pc = "call",
                                                     !.a = b, !.b = a]
                     ELSE Idle]
    /\ out = Idle
    /\ budget = [swipes |-> 0, posts |-> 0, deletes |-> 0, lost |-> {}]

OrderPairCall(r) ==
    LET me == req[r] IN
    /\ me.op = "orderPair" /\ me.pc = "call"
    /\ Goto(r, [me EXCEPT !.pc = "return",
                            !.u1 = orderPair(me.a, me.b)[1],
                            !.u2 = orderPair(me.a, me.b)[2]])
    /\ UNCHANGED <<store, budget>>

NextPair == \E r \in Reqs : OrderPairCall(r)

SpecPair == InitPair /\ [][NextPair]_vars

(* ============================ properties ============================== *)
Lo(a, b) == IF a < b THEN a ELSE b
Hi(a, b) == IF a < b THEN b ELSE a

MatchesOf(a, b) == {m \in matches : m.user1_id = Lo(a, b) /\ m.user2_id = Hi(a, b)}

HasRight(a, b) ==
    \E i \in 1..Len(swipes) :
        swipes[i] = [swiper_id |-> a, target_id |-> b, direction |-> "right"]

\* Request r takes the step.
Acts(r) == req'[r] # req[r]

NewMatch(q) == q.op = "swipe" /\ q.resp.message = "Swipe opgeslagen - MATCH!"
AlreadyMatched(q) == q.op = "swipe" /\ q.resp.message = "Swipe opgeslagen - match bestond al."

\* A match row with this id has this user as one of its two participants.
Participant(matchId, userId) ==
    \E m \in matches : m.id = matchId.v /\ userId.v \in {m.user1_id, m.user2_id}

\* C1: the matches store never holds two rows for the same canonical pair
\* (user1_id, user2_id), whatever the interleaving of POST /swipe requests.
C1_AtMostOneMatchPerPair ==
    \A m1, m2 \in matches :
        (m1.user1_id = m2.user1_id /\ m1.user2_id = m2.user2_id) => m1 = m2

\* C2: of the requests that complete reciprocity for a pair only one answers
\* NewMatch: a request that answers "MATCH!" with its inserted matchId is the
\* only one to have inserted a row for the pair.
C2_OneNewMatchWinner ==
    NewMatch(out) => \A m \in MatchesOf(out.u1, out.u2) : m.id = out.resp.matchId

\* C3: once a right swipe a->b and a right swipe b->a are in the ledger and
\* the requests that recorded the two have returned, neither with a storage
\* error, the Match row (min(a,b), max(a,b)) exists (no moderation delete runs
\* in this specification).
Returned(i) == i \notin budget.lost /\ \A r \in Reqs : req[r].row # i

RightRows(a, b) ==
    {i \in 1..Len(swipes) :
        swipes[i] = [swiper_id |-> a, target_id |-> b, direction |-> "right"]}

C3_ReciprocityNotMissed ==
    \A a, b \in Swipers :
        (/\ a # b
         /\ \E i \in RightRows(a, b) : Returned(i)
         /\ \E j \in RightRows(b, a) : Returned(j))
        => MatchesOf(a, b) # {}

\* Both right swipes recorded and returned, next to a swipe whose request
\* failed after it was recorded.
C3_Witness ==
    /\ \E i \in RightRows(1, 2) : Returned(i)
    /\ \E j \in RightRows(2, 1) : Returned(j)
    /\ budget.lost # {}
    /\ MatchesOf(1, 2) # {}

\* C4: a right swipe re-submitted for a pair that is already matched answers
\* matched:true with the matchId of the pair's Match row (the id the NewMatch
\* answer carried).
C4_AlreadyMatchedSameId ==
    AlreadyMatched(out) =>
        /\ out.resp.matched = "true"
        /\ \E m \in MatchesOf(out.u1, out.u2) : out.resp.matchId = m.id

\* C5: a POST /swipe whose swiperId and targetId are numerically equal is
\* answered 400, for either direction, and leaves the swipes ledger and the
\* matches store as they were; no such request ever reaches a query.
SelfSwipe(q) ==
    /\ q.op = "swipe"
    /\ q.a.t # "undefined" /\ q.b.t # "undefined"
    /\ q.a.v = q.b.v

C5_SelfSwipeRejected ==
    [][/\ SelfSwipe(out') => (out'.resp.status = 400 /\ swipes' = swipes /\ matches' = matches)
       /\ \A r \in Reqs : ~SelfSwipe(req'[r])]_vars

\* A self-swipe sent as string and number, rejected while the ledger and the
\* matches store are not empty.
C5_Witness ==
    /\ SelfSwipe(out) /\ out.a = Str(1) /\ out.b = Num(1) /\ out.c = "left"
    /\ out.resp.status = 400
    /\ swipes # <<>> /\ matches # {}

\* C6: a left swipe never inserts a Match row, and it answers matched:false
\* (when the store rejects its insert the answer is the 500 of the catch block).
C6_LeftNeverMatches ==
    [][\A r \in Reqs :
          (req[r].op = "swipe" /\ req[r].c = "left" /\ Acts(r)) =>
              /\ matches' = matches
              /\ req'[r] = Idle
              /\ \/ out'.resp.status = 500
                 \/ out'.resp.status = 200 /\ out'.resp.matched = "false"]_vars

\* A left swipe answered matched:false although the reverse right swipe and the
\* pair's match exist.
C6_Witness ==
    /\ out.op = "swipe" /\ out.c = "left" /\ out.resp.matched = "false"
    /\ HasRight(SqlInt(out.b), SqlInt(out.a))
    /\ MatchesOf(SqlInt(out.a), SqlInt(out.b)) # {}

\* C7: when a POST /swipe inserts a Match for (a,b), the ledger holds a right
\* swipe a->b and a right swipe b->a.
C7_MatchOnlyOnReciprocity ==
    NewMatch(out) =>
        /\ HasRight(SqlInt(out.a), SqlInt(out.b))
        /\ HasRight(SqlInt(out.b), SqlInt(out.a))

\* C8: the membership check of GET /messages and POST /messages lets a request
\* pass exactly when a Match row with id = matchId exists at that moment and
\* the user is its user1_id or user2_id.
Authorizing(r) == req[r].pc = "authorize" /\ Acts(r)

C8_UserInMatchIff ==
    [][\A r \in Reqs :
          Authorizing(r) =>
              (req'[r].pc \in {"select", "insert"} <=> Participant(req[r].a, req[r].b))]_vars

\* A participant let through while a third user is denied on an existing match.
C8_Witness ==
    /\ \E r \in Reqs : req[r].pc \in {"select", "insert"}
    /\ out.resp.status = 403
    /\ \E m \in matches : m.id = SqlInt(out.a) /\ SqlInt(out.b) \notin {m.user1_id, m.user2_id}

\* C9: a well-formed GET /messages or POST /messages by a user who is no
\* participant of matchId answers 403; the message store is unchanged and no
\* message is returned.
C9_DeniedIs403 ==
    [][\A r \in Reqs :
          (Authorizing(r) /\ ~Participant(req[r].a, req[r].b)) =>
              /\ req'[r] = Idle
              /\ out'.resp.status = 403
              /\ out'.resp.rows = <<>>
              /\ messages' = messages /\ nextMessageId' = nextMessageId]_vars

\* A third user is denied the messages of a match that has a message.
C9_Witness ==
    /\ out.op = "getMessages" /\ out.resp.status = 403
    /\ \E i \in 1..Len(messages) : messages[i].match_id = SqlInt(out.a)

\* C10: a message is inserted only while a Match row with id = matchId exists
\* and has senderId as a participant.
C10_SenderParticipantAtWrite ==
    (out.op = "postMessages" /\ out.resp.status = 201) => Participant(out.a, out.b)

\* C11: GET /messages returns the messages of the match in non-decreasing
\* sent_at order, and two messages with equal sent_at in the order of their
\* insertion (ascending id).
C11_OrderedBySentAtThenId ==
    (out.op = "getMessages" /\ out.resp.status = 200) =>
        \A i, j \in 1..Len(out.resp.rows) :
            i < j =>
                \/ out.resp.rows[i].sent_at < out.resp.rows[j].sent_at
                \/ /\ out.resp.rows[i].sent_at = out.resp.rows[j].sent_at
                   /\ out.resp.rows[i].id < out.resp.rows[j].id

\* C12: every Match row has user1_id < user2_id, and the row a POST /swipe
\* inserts has the smaller of swiperId and targetId as user1_id and the larger
\* as user2_id, whichever of the two users swiped last.
C12_CanonicalOrder ==
    /\ \A m \in matches : m.user1_id < m.user2_id
    /\ NewMatch(out) =>
           \E m \in matches :
               /\ m.id = out.resp.matchId
               /\ m.user1_id = Lo(out.a.v, out.b.v)
               /\ m.user2_id = Hi(out.a.v, out.b.v)

\* The user with the larger id swiped last, and named the other by a string.
C12_Witness ==
    /\ NewMatch(out) /\ out.a = Num(2) /\ out.b = Str(1)
    /\ \E m \in matches : m.id = out.resp.matchId /\ m.user1_id = 1 /\ m.user2_id = 2

\* C13: for all ids a # b, orderPair(a, b) = orderPair(b, a), and the first
\* component of the result is the numerically smaller of the two ids.
C13_OrderPairSymmetric ==
    (/\ req[1].pc = "return" /\ req[2].pc = "return"
     /\ req[1].a.v # req[1].b.v)
    => /\ <<req[1].u1, req[1].u2>> = <<req[2].u1, req[2].u2>>
       /\ req[1].u1 = Lo(req[1].a.v, req[1].b.v)
       /\ req[1].u2 = Hi(req[1].a.v, req[1].b.v)

\* Both calls have returned for a pair given larger id first, one id a string.
C13_Witness ==
    /\ req[1].pc = "return" /\ req[2].pc = "return"
    /\ req[1].a = Str(5) /\ req[1].b = Num(3)
    /\ req[1].u1 = 3 /\ req[2].u1 = 3

\* C14: every POST /swipe that passes validation appends exactly one swipe
\* event (swiper, target, direction) to the ledger, also when an identical or
\* an opposite event for the same ordered pair is there already, and no step
\* of a swipe, match-list or message request changes or removes an event of
\* the ledger.
Inserting(r) == req[r].op = "swipe" /\ req[r].pc = "insertSwipe"

C14_SwipeAppendOnly ==
    [][/\ \A r \in Reqs :
            Acts(r) =>
                IF Inserting(r)
                THEN swipes' = Append(swipes, [swiper_id |-> req[r].a.v,
                                               target_id |-> req[r].b.v,
                                               direction |-> req[r].c])
                ELSE swipes' = swipes
       /\ Len(swipes') + Cardinality({r \in Reqs : Inserting(r)'}) = budget'.swipes]_vars

\* The same event twice and its opposite, all three in the ledger.
C14_Witness ==
    /\ Len(swipes) = 3
    /\ swipes[1] = swipes[2]
    /\ swipes[3] = [swipes[1] EXCEPT !.direction = "left"]
    /\ swipes[1].direction = "right"

\* C15: reciprocity is decided by existence alone: when the ledger holds a
\* right swipe b->a, a right swipe a->b that is answered 200 yields a match
\* (matched:true, and the pair's Match row exists), also when the most recent
\* swipe b->a is a left swipe.
C15_ExistenceDecides ==
    (/\ out.op = "swipe" /\ out.c = "right" /\ out.resp.status = 200
     /\ HasRight(out.b.v, out.a.v))
    => /\ out.resp.matched = "true"
       /\ MatchesOf(out.a.v, out.b.v) # {}

\* b swiped right and then left on a, with no swipe on a after that; the
\* right swipe a->b that came later is answered with a match.
C15_Witness ==
    /\ out.op = "swipe" /\ out.c = "right" /\ out.resp.matched = "true"
    /\ MatchesOf(out.a.v, out.b.v) # {}
    /\ \E i, j \in 1..Len(swipes) :
           /\ i < j /\ j < out.row
           /\ swipes[i] = [swiper_id |-> out.b.v, target_id |-> out.a.v, direction |-> "right"]
           /\ swipes[j] = [swiper_id |-> out.b.v, target_id |-> out.a.v, direction |-> "left"]
           /\ \A k \in (j + 1)..Len(swipes) : swipes[k].swiper_id # out.b.v

\* C16: when the store fails in POST /swipe after the swipe was inserted
\* (at the reverse read, the match read or the match insert) the request
\* answers 500 and its swipe stays in the ledger.
SwipeKept ==
    /\ \A i \in budget.lost : i \in 1..Len(swipes) /\ swipes[i].direction = "right"
    /\ (out.op = "swipe" /\ out.row # 0 /\ out.resp.status # 200)
       => /\ out.resp.status = 500
          /\ out.row \in budget.lost
          /\ swipes[out.row] = [swiper_id |-> out.a.v, target_id |-> out.b.v,
                                 direction |-> "right"]

\* A right swipe between the two users of a swipe whose request failed after
\* recording it, recorded later than that swipe and answered 200.
LaterRight(q) ==
    /\ q.op = "swipe" /\ q.c = "right" /\ q.resp.status = 200
    /\ \E i \in budget.lost :
           /\ i < q.row
           /\ {swipes[i].swiper_id, swipes[i].target_id} = {q.a.v, q.b.v}

\* C16 as stated: ... and a later right swipe by either user of the pair that
\* completes without failure results in the pair's Match existing.
C16_LaterSwipeMatches ==
    /\ SwipeKept
    /\ LaterRight(out) => MatchesOf(out.a.v, out.b.v) # {}

\* C16, amended: ... and a later right swipe by either user of the pair that
\* completes without failure results in the pair's Match existing, provided
\* the ledger holds a right swipe of the other user on the swiper.
C16_LaterSwipeMatchesOnReciprocity ==
    /\ SwipeKept
    /\ (LaterRight(out) /\ HasRight(out.b.v, out.a.v))
       => MatchesOf(out.a.v, out.b.v) # {}

\* The request that completed reciprocity failed after recording its swipe,
\* and the match is inserted by the request that repeats the swipe.
C16_Witness ==
    /\ NewMatch(out)
    /\ \E i \in budget.lost :
           /\ i < out.row
           /\ swipes[i] = swipes[out.row]
           /\ \E j \in 1..(i - 1) :
                  swipes[j] = [swiper_id |-> out.b.v, target_id |-> out.a.v,
                               direction |-> "right"]

\* C17: a POST /messages whose content is missing or empty, or whose matchId
\* or senderId is missing, answers 400 without reaching the authorization
\* query and stores no message; every stored message has non-empty content;
\* and the 201 answer of an append carries the id of the one message row that
\* its step inserted.
Malformed(q) ==
    q.op = "postMessages" /\ (Falsy(q.a) \/ Falsy(q.b) \/ q.c = "")

C17_MalformedPostIs400 ==
    [][/\ Malformed(out') => (out'.resp.status = 400 /\ messages' = messages)
       /\ \A r \in Reqs : ~Malformed(req'[r])
       /\ \A i \in 1..Len(messages') : messages'[i].content # ""
       /\ (out'.op = "postMessages" /\ out'.resp.status = 201) =>
              /\ messages' = Append(messages, [id |-> out'.resp.messageId,
                                               match_id |-> out'.a.v,
                                               sender_id |-> out'.b.v,
                                               content |-> out'.c,
                                               sent_at |-> clock])
              /\ \A i \in 1..Len(messages) : messages[i].id # out'.resp.messageId]_vars

\* A participant's message with empty content is refused while the match has
\* a message already.
C17_Witness ==
    /\ Malformed(out) /\ out.c = "" /\ out.resp.status = 400
    /\ Participant(out.a, out.b)
    /\ \E i \in 1..Len(messages) : messages[i].match_id = out.a.v

\* The moderation delete of a user has just answered.
Deleted(q) == q.op = "deleteUser" /\ q.resp.status = 200

\* C18: every stored message refers to an existing match: when DELETE
\* /admin/user/:id has completed, no message row is left whose match_id names
\* a match that is no longer there, whichever participant sent it.
C18_NoOrphanMessages ==
    Deleted(out) =>
        \A i \in 1..Len(messages) : \E m \in matches : m.id = messages[i].match_id

\* C19: once DELETE /admin/user/:id for user u has returned and no request is
\* in flight, no swipe row (as swiper or target), no match row (as user1_id or
\* user2_id) and no message row (as sender) refers to u.
C19_NoReferenceAfterDelete ==
    (Deleted(out) /\ \A r \in Reqs : Free(r)) =>
        /\ \A i \in 1..Len(swipes) :
               swipes[i].swiper_id # out.a.v /\ swipes[i].target_id # out.a.v
        /\ \A m \in matches : m.user1_id # out.a.v /\ m.user2_id # out.a.v
        /\ \A i \in 1..Len(messages) : messages[i].sender_id # out.a.v

====
